---- MODULE Spec2Model ----
(***************************************************************************)
(* bestbind: the benchmark orchestrator (src/main.rs), the bounded wait    *)
(* of a process handle (src/format/mod.rs, src/format/ip.rs) and the two   *)
(* termination routines (src/format/ip.rs, src/format/docker.rs), with the *)
(* kernel's side of the transfer process as the environment.               *)
(*                                                                         *)
(* Time is in milliseconds and is the handle's own clock: `now` is the     *)
(* time since wait_timeout took `start`.  The clock advances only in       *)
(* thread::sleep, by exactly the requested duration; every other statement *)
(* takes no time.  The child's steps interleave freely with the handle's,  *)
(* so an exit during a sleep of the poll loop is an exit at its start (the  *)
(* child exits while the handle is asleep) or at its end.                  *)
(* f64 values are modelled by exact integers and exact fractions.          *)
(***************************************************************************)
EXTENDS Integers, Sequences, FiniteSets, TLC

(* ------------------------------ bounds -------------------------------- *)
\* args.timeout (seconds) ranges over 0..MaxTimeout
MaxTimeout == 1
\* args.pass ranges over 1..MaxPass
MaxPass == 3
\* a profile holds 0..MaxUses bindings
MaxUses == 3
\* a transfer writes up to MaxChunks pieces (the bytes of a file, or the
\* files of a directory) of 1..MaxChunkLen bytes each
MaxChunks == 2
MaxChunkLen == 3
\* args.extra holds 0..MaxExtra arguments
MaxExtra == 2

(* ------------------------- program constants -------------------------- *)
InitialDelayMs == 1
MaxDelayMs == 100
GracePolls == 50
GraceSleepMs == 100
SIGTERM == 15
SIGKILL == 9
TrimPasses == 3
\* stands for f64::MAX (and its negation for f64::MIN): above every sample
F64_MAX == 1000000

(* ------------------------------ inputs -------------------------------- *)
Programs == {"Rsync", "Wget", "Curl", "Git"}
Formats == {"IP", "Docker"}
\* profile.uses after runner construction: binding identifier and comment
Uses == << [network |-> "192.0.2.1", comment |-> "c1"],
           [network |-> "2001:db8::2", comment |-> "c2"] >>
\* binding identifiers a profile can hold, and those of them that
\* str::parse::<net::IpAddr> accepts
Identifiers == {"192.0.2.1", "2001:db8::2", "198.51.100.7", "192.0.2.256"}
IpAddrs == {"192.0.2.1", "2001:db8::2", "198.51.100.7"}
\* the extra arguments a command line can name
ExtraTokens == {"-4", "-q"}
ExtraArgs == UNION {[1..n -> ExtraTokens] : n \in 0..MaxExtra}
\* the bandwidth values a run can measure (KB/s)
Samples == {10, 20}
\* the sample values of the aggregation's tables
AggSamples == {10, 20, 30, 45}
\* exit codes a transfer leaves with on its own
OwnExitCodes == {0, 1}
\* exit code of a tool that catches SIGTERM, cleans up and exits
TermExitCode == 20
\* length of a directory itself, as the file system reports it
DirEntryLen == 4096

None == -1

Min(a, b) == IF a <= b THEN a ELSE b

RECURSIVE Sum(_)
Sum(s) == IF s = << >> THEN 0 ELSE Head(s) + Sum(Tail(s))

(* ------------------- std::process::ExitStatus (unix) ------------------ *)
\* An ExitStatus is the raw wait status: exit code c is c * 256, death by
\* signal s is s (bit 128 set when a core was dumped).
ExitedWith(c) == c * 256
SignaledWith(s) == s
FromRaw(raw) == raw
StatusCode(status) ==
    IF status % 128 = 0 THEN (status \div 256) % 256 ELSE None

VARIABLES
    args,               \* [pass, timeout]: the parsed command line
    program,            \* Program
    format,             \* profile.format
    profile_uses,       \* profile.uses: HashMap from identifier to comment
    image,              \* profile.image as DockerFormatRunner::create found
                        \* it: outcome of `image inspect` and of `pull`
    extra,              \* args.extra, split into arguments
    uses,               \* runner.uses(): Vec<Target>
    tmp_file,           \* the scratch destination of the run
    size,               \* the measured size (bytes)
    bound,              \* the `target` argument of runner.run
    cmd,                \* the Command of the run: program, argv, environment
    inherited,          \* a child of the process other than the transfer: kept
                        \* across exec, or adopted (the process is pid 1)
    origin_pass,        \* history: binding of each sample of results_pass
    origins,            \* history: binding of each sample of results
    pc,                 \* position of the main thread
    pass,               \* loop variable of `for pass in 0..args.pass`
    target,             \* index (0-based) of `for target in uses`
    results,            \* Vec<Vec<f64>>
    results_pass,       \* Vec<f64> of the pass under way
    calculated_results, \* Vec<(network, comment, res)>
    term,               \* the AtomicBool set by SIGINT / SIGTERM
    now,                \* ms since `start` of the running wait_timeout
    delay,              \* backoff delay (ms)
    time,               \* elapsed captured when termination begins
    lastCheck,          \* result of the latest try_wait: "none", "running", "exited"
    res,                \* kill_children's `res`
    polls,              \* iterations done of `for _ in 0..50`
    prog_status,        \* the ProgramStatus wait_timeout returned
    state_str,          \* how the latest finished run was reported
    child,              \* the spawned process, as the kernel sees it
    helper,             \* a helper process in the child's process group
    ctr,                \* the run's container (Docker format)
    signals,            \* history: signals sent in this run
    slept,              \* history: duration of the latest sleep of the poll loop
    how,                \* history: "natural" or "forced" return of wait_timeout
    spawned,            \* history: number of processes spawned so far
    termAt              \* history: where the main thread was when term was set

vars == << args, program, format, profile_uses, image, extra, uses, tmp_file, size,
           bound, cmd,
           inherited, origin_pass, origins, pc, pass, target, results, results_pass,
           calculated_results, state_str, term, now, delay, time, lastCheck, res, polls,
           prog_status, child, helper, ctr, signals, slept, how, spawned,
           termAt >>

cfgVars == << args, program, format, profile_uses, image, extra >>
runVars == << uses, tmp_file, size, bound, cmd, inherited, origin_pass,
             origins >>
mainVars == << pass, target, results, results_pass, calculated_results,
              state_str >>
waitVars == << now, delay, time, lastCheck, res, polls, prog_status, slept, how >>
procVars == << child, helper, ctr >>
histVars == << spawned, termAt >>

NoChild == [state |-> "none", status |-> None, cause |-> "none",
            exitAt |-> None, pend |-> {}]

NoStatus == [status |-> None, time |-> None]
NoReport == [state |-> "none", user |-> FALSE]
NoCmd == [prog |-> "", argv |-> << >>, env |-> {}]
NoImage == [inspect |-> "none", pull |-> "none"]
NoTmp == [kind |-> "none", chunks |-> << >>]
NoTerm == [set |-> FALSE, pass |-> 0, target |-> 0, running |-> FALSE]

Deadline == args.timeout * 1000

(* ---------------------- the kernel's view of a child ------------------ *)
Spawned == [state |-> "running", status |-> None, cause |-> "none",
            exitAt |-> None, pend |-> {}]

\* Child::try_wait: Some(status) once the child has exited, else None
TryWait(c) == IF c.state \in {"zombie", "reaped"} THEN c.status ELSE None

\* mutant: an exited child is left unreaped
ReapLeavesZombie(c) == c

\* a successful wait / try_wait frees the pid
Reap(c) == IF c.state = "zombie" THEN [c EXCEPT !.state = "reaped"] ELSE c

\* libc::waitpid(-1, NULL, WNOHANG): the children of the process are the
\* spawned `c` and the inherited `o`. A pid when one of them is a zombie,
\* -1 (ECHILD) when there is no child, 0 when every child is still running
WaitpidAny(c, o) ==
    IF c.state = "zombie" \/ o = "zombie" THEN 1
    ELSE IF c.state \in {"none", "reaped"} /\ o = "none" THEN -1
    ELSE 0

\* the process can run no further instruction
Dead(c) == c.state \in {"zombie", "reaped"} \/ SIGKILL \in c.pend

\* libc::kill / libc::killpg / Child::kill / `docker kill`: the log entry
\* and the effect on the child and on the rest of its process group
SigEntry(sig, to) ==
    [sig |-> sig, to |-> to, last |-> lastCheck,
     reaped |-> (child.state = "reaped"), at |-> now]

Deliver(sig, to) ==
    /\ signals' = Append(signals, SigEntry(sig, to))
    /\ child' = IF child.state = "running"
                THEN [child EXCEPT !.pend = @ \cup {sig}]
                ELSE child
    /\ helper' = IF to = "pgrp" /\ sig = SIGKILL /\ helper = "running"
                 THEN "killed"
                 ELSE helper

(* --------------------- wait_timeout: one poll tick -------------------- *)
\* mutant: the cancellation flag is looked at before the exit status
IPPollTickFlagFirst(status, flag, t, deadline) ==
    IF flag THEN "cancelled"
    ELSE IF status # None THEN "exited"
    ELSE IF t >= deadline THEN "deadline"
    ELSE "sleep"

\* IPFormatHandle::wait_timeout, the body of `loop`
IPPollTick(status, flag, t, deadline) ==
    IF status # None THEN "exited"
    ELSE IF flag THEN "cancelled"
    ELSE IF t >= deadline THEN "deadline"
    ELSE "sleep"

\* mutant: the sleep is not cut to the time remaining to the deadline
IPSleepForUncut(d, t, deadline) == d

IPSleepFor(d, t, deadline) == Min(d, deadline - t)
\* mutant: the backoff doubles without its ceiling
IPNextDelayNoCeiling(d) == d * 2

IPNextDelay(d) == Min(d * 2, MaxDelayMs)

\* mutant: the deadline is looked at before the exit status
SharedPollTickDeadlineFirst(status, flag, t, deadline) ==
    IF t >= deadline THEN "deadline"
    ELSE IF status # None THEN "exited"
    ELSE IF flag THEN "cancelled"
    ELSE "sleep"

\* format::wait_timeout (used by DockerFormatHandle), the body of `loop`
SharedPollTick(status, flag, t, deadline) ==
    IF status # None THEN "exited"
    ELSE IF flag THEN "cancelled"
    ELSE IF t >= deadline THEN "deadline"
    ELSE "sleep"

\* mutant: the sleep is not cut to the time remaining to the deadline
SharedSleepForUncut(d, t, deadline) == d

SharedSleepFor(d, t, deadline) == Min(d, deadline - t)
SharedNextDelay(d) == Min(d * 2, MaxDelayMs)

\* Handle::wait_timeout, dispatched on the handle's type
PollTick ==
    IF format = "IP"
    THEN IPPollTick(TryWait(child), term, now, Deadline)
    ELSE SharedPollTick(TryWait(child), term, now, Deadline)

SleepFor ==
    IF format = "IP" THEN IPSleepFor(delay, now, Deadline)
    ELSE SharedSleepFor(delay, now, Deadline)

NextDelay ==
    IF format = "IP" THEN IPNextDelay(delay) ELSE SharedNextDelay(delay)

Checked == IF TryWait(child) = None THEN "running" ELSE "exited"

\* try_wait returned Some(status): return it with start.elapsed()
WaitExited ==
    /\ pc = "wait"
    /\ PollTick = "exited"
    /\ child' = Reap(child)
    /\ lastCheck' = Checked
    /\ prog_status' = [status |-> TryWait(child), time |-> now]
    /\ how' = "natural"
    /\ pc' = "classify"
    /\ UNCHANGED << cfgVars, runVars, mainVars, histVars, term, now, delay, time, res,
                    polls, slept, helper, ctr, signals >>

\* term.load() is true: take the elapsed time, then kill
WaitCancelled ==
    /\ pc = "wait"
    /\ PollTick = "cancelled"
    /\ child' = Reap(child)
    /\ lastCheck' = Checked
    /\ time' = now
    /\ pc' = "kill"
    /\ UNCHANGED << cfgVars, runVars, mainVars, histVars, term, now, delay, res, polls,
                    prog_status, slept, how, helper, ctr, signals >>

\* now >= deadline: take the elapsed time, then kill
WaitDeadline ==
    /\ pc = "wait"
    /\ PollTick = "deadline"
    /\ child' = Reap(child)
    /\ lastCheck' = Checked
    /\ time' = now
    /\ pc' = "kill"
    /\ UNCHANGED << cfgVars, runVars, mainVars, histVars, term, now, delay, res, polls,
                    prog_status, slept, how, helper, ctr, signals >>

\* neither exited, cancelled nor due: go to sleep
WaitSleep ==
    /\ pc = "wait"
    /\ PollTick = "sleep"
    /\ child' = Reap(child)
    /\ lastCheck' = Checked
    /\ pc' = "sleep"
    /\ UNCHANGED << cfgVars, runVars, mainVars, histVars, term, now, delay, time, res,
                    polls, prog_status, slept, how, helper, ctr, signals >>

\* sleep(min(delay, remaining)) is over; delay = min(delay * 2, 100ms)
WaitWake ==
    /\ pc = "sleep"
    /\ now' = now + SleepFor
    /\ slept' = SleepFor
    /\ delay' = NextDelay
    /\ pc' = "wait"
    /\ UNCHANGED << cfgVars, runVars, mainVars, histVars, term, time, lastCheck, res,
                    polls, prog_status, how, procVars, signals >>

(* ----------------------- ip.rs: kill_children ------------------------- *)
\* mutant: no graceful stage, every program is killed at once
FirstSignalKill(p) ==
    IF p # "Git" THEN << SIGKILL, "pid" >> ELSE << SIGKILL, "pgrp" >>

\* mutant: git's SIGKILL goes to the child alone
FirstSignalChildOnly(p) ==
    IF p # "Git" THEN << SIGTERM, "pid" >> ELSE << SIGKILL, "pid" >>

\* SIGTERM to the child, or for git SIGKILL to its process group
FirstSignal(p) ==
    IF p # "Git" THEN << SIGTERM, "pid" >> ELSE << SIGKILL, "pgrp" >>

KillFirstSignal ==
    /\ pc = "kill"
    /\ format = "IP"
    /\ Deliver(FirstSignal(program)[1], FirstSignal(program)[2])
    /\ res' = None
    /\ polls' = 0
    /\ pc' = "grace"
    /\ UNCHANGED << cfgVars, runVars, mainVars, histVars, term, now, delay, time,
                    lastCheck, prog_status, slept, how, ctr >>

\* `for _ in 0..50`: try_wait returned Some(status): break
GraceExited ==
    /\ pc = "grace"
    /\ polls < GracePolls
    /\ TryWait(child) # None
    /\ child' = Reap(child)
    /\ lastCheck' = "exited"
    /\ res' = TryWait(child)
    /\ pc' = "reap"
    /\ UNCHANGED << cfgVars, runVars, mainVars, histVars, term, now, delay, time, polls,
                    prog_status, slept, how, helper, ctr, signals >>

\* `for _ in 0..50`: try_wait returned None: sleep 100 ms
GraceSleep ==
    /\ pc = "grace"
    /\ polls < GracePolls
    /\ TryWait(child) = None
    /\ lastCheck' = "running"
    /\ now' = now + GraceSleepMs
    /\ polls' = polls + 1
    /\ UNCHANGED << cfgVars, runVars, mainVars, histVars, term, pc, delay, time, res,
                    prog_status, slept, how, child, helper, ctr, signals >>

\* mutant: the escalation SIGKILL is followed by another round of polls
EscalatePollsAgain ==
    /\ pc = "grace"
    /\ polls = GracePolls
    /\ res = None
    /\ Deliver(SIGKILL, "pid")
    /\ polls' = 0
    /\ UNCHANGED << cfgVars, runVars, mainVars, histVars, term, now, delay,
                    time, lastCheck, res, pc, prog_status, slept, how, ctr >>

\* mutant: the escalation repeats SIGTERM
EscalateWithTerm ==
    /\ pc = "grace"
    /\ polls = GracePolls
    /\ res = None
    /\ Deliver(SIGTERM, "pid")
    /\ pc' = "blocking_wait"
    /\ UNCHANGED << cfgVars, runVars, mainVars, histVars, term, now, delay, time,
                    lastCheck, res, polls, prog_status, slept, how, ctr >>

\* res.is_none() after the loop: SIGKILL the child
Escalate ==
    /\ pc = "grace"
    /\ polls = GracePolls
    /\ res = None
    /\ Deliver(SIGKILL, "pid")
    /\ pc' = "blocking_wait"
    /\ UNCHANGED << cfgVars, runVars, mainVars, histVars, term, now, delay, time,
                    lastCheck, res, polls, prog_status, slept, how, ctr >>

\* proc.child.wait(): blocks until the child has exited
BlockingWait ==
    /\ pc = "blocking_wait"
    /\ child.state = "zombie"
    /\ child' = Reap(child)
    /\ res' = child.status
    /\ pc' = "reap"
    /\ UNCHANGED << cfgVars, runVars, mainVars, histVars, term, now, delay, time,
                    lastCheck, polls, prog_status, slept, how, helper, ctr,
                    signals >>

\* mutant: the elapsed time is taken when kill_children has returned
ReapAllChildrenElapsedAtReturn ==
    /\ pc = "reap"
    /\ IF WaitpidAny(child, inherited) < 0
       THEN /\ prog_status' = [status |-> res, time |-> now]
            /\ how' = "forced"
            /\ pc' = "classify"
            /\ UNCHANGED << child, inherited >>
       ELSE /\ child' = Reap(child)
            /\ inherited' = IF child.state # "zombie" /\ inherited = "zombie"
                            THEN "none"
                            ELSE inherited
            /\ UNCHANGED << prog_status, how, pc >>
    /\ UNCHANGED << cfgVars, uses, tmp_file, size, bound, cmd, origin_pass, origins,
                    mainVars, histVars, term, now, delay, time,
                    lastCheck, res, polls, slept, helper, ctr, signals >>

\* reap_all_children(), then `res.unwrap()` back in wait_timeout
ReapAllChildren ==
    /\ pc = "reap"
    /\ IF WaitpidAny(child, inherited) < 0
       THEN /\ prog_status' = [status |-> res, time |-> time]
            /\ how' = "forced"
            /\ pc' = "classify"
            /\ UNCHANGED << child, inherited >>
       ELSE /\ child' = Reap(child)
            /\ inherited' = IF child.state # "zombie" /\ inherited = "zombie"
                            THEN "none"
                            ELSE inherited
            /\ UNCHANGED << prog_status, how, pc >>
    /\ UNCHANGED << cfgVars, uses, tmp_file, size, bound, cmd, origin_pass, origins,
                    mainVars, histVars, term, now, delay, time,
                    lastCheck, res, polls, slept, helper, ctr, signals >>

(* ------------- docker.rs: DockerFormatHandle::kill_children ----------- *)
\* self.child.child.kill()
DockerKillChild ==
    /\ pc = "kill"
    /\ format = "Docker"
    /\ IF child.state = "reaped"
       THEN UNCHANGED << signals, child, helper >>
       ELSE Deliver(SIGKILL, "pid")
    /\ pc' = "docker_wait"
    /\ UNCHANGED << cfgVars, runVars, mainVars, histVars, term, now, delay, time,
                    lastCheck, res, polls, prog_status, slept, how, ctr >>

\* self.child.child.wait()
DockerWait ==
    /\ pc = "docker_wait"
    /\ child.state = "zombie"
    /\ child' = Reap(child)
    /\ pc' = "docker_kill"
    /\ UNCHANGED << cfgVars, runVars, mainVars, histVars, term, now, delay, time,
                    lastCheck, res, polls, prog_status, slept, how, helper,
                    ctr, signals >>

\* mutant: the status of `docker kill` is not asserted
DockerKillContainerUnasserted ==
    /\ pc = "docker_kill"
    /\ signals' = Append(signals, SigEntry(SIGKILL, "container"))
    /\ ctr' = IF ctr = "running" THEN "gone" ELSE ctr
    /\ prog_status' = [status |-> FromRaw(128 + SIGKILL), time |-> time]
    /\ how' = "forced"
    /\ pc' = "classify"
    /\ UNCHANGED << cfgVars, runVars, mainVars, histVars, term, now, delay,
                    time, lastCheck, res, polls, slept, child, helper >>

\* `docker kill <ctr_name>` and the assert on its status
DockerKillContainer ==
    /\ pc = "docker_kill"
    /\ \E ok \in BOOLEAN :
        /\ ok => ctr = "running"
        /\ signals' = Append(signals, SigEntry(SIGKILL, "container"))
        /\ IF ok
           THEN /\ ctr' = "gone"
                /\ prog_status' = [status |-> FromRaw(128 + SIGKILL),
                                   time |-> time]
                /\ how' = "forced"
                /\ pc' = "classify"
           ELSE /\ pc' = "panic"
                /\ UNCHANGED << ctr, prog_status, how >>
    /\ UNCHANGED << cfgVars, runVars, mainVars, histVars, term, now, delay, time,
                    lastCheck, res, polls, slept, child, helper >>

(* ------------------- the environment: child and user ------------------ *)
\* the transfer exits on its own
ChildExit ==
    /\ child.state = "running"
    /\ SIGKILL \notin child.pend
    /\ \E c \in OwnExitCodes :
        child' = [child EXCEPT !.state = "zombie", !.status = ExitedWith(c),
                               !.cause = "own", !.exitAt = now]
    /\ ctr' = IF ctr = "running" THEN "gone" ELSE ctr
    /\ UNCHANGED << cfgVars, runVars, mainVars, histVars, waitVars, term, pc, helper,
                    signals >>

\* the transfer acts on a pending SIGTERM: dies of it, or cleans up and exits
ChildTermExit ==
    /\ child.state = "running"
    /\ SIGTERM \in child.pend
    /\ SIGKILL \notin child.pend
    /\ \E st \in {SignaledWith(SIGTERM), ExitedWith(TermExitCode)} :
        child' = [child EXCEPT !.state = "zombie", !.status = st,
                               !.cause = "sigterm", !.exitAt = now]
    /\ UNCHANGED << cfgVars, runVars, mainVars, histVars, waitVars, term, pc, helper,
                    ctr, signals >>

\* the kernel ends a process that has a SIGKILL pending
ChildKillExit ==
    /\ child.state = "running"
    /\ SIGKILL \in child.pend
    /\ child' = [child EXCEPT !.state = "zombie",
                              !.status = SignaledWith(SIGKILL),
                              !.cause = "sigkill", !.exitAt = now]
    /\ UNCHANGED << cfgVars, runVars, mainVars, histVars, waitVars, term, pc, helper,
                    ctr, signals >>

\* the transfer forks a helper (rsync receiver, git-remote-*) in its group
HelperSpawn ==
    /\ format = "IP"
    /\ program \in {"Rsync", "Git"}
    /\ child.state = "running"
    /\ SIGKILL \notin child.pend
    /\ helper = "none"
    /\ helper' = "running"
    /\ UNCHANGED << cfgVars, runVars, mainVars, histVars, waitVars, term, pc, child,
                    ctr, signals >>

\* a helper that exits is reaped by its parent or by init
HelperExit ==
    /\ helper = "running"
    /\ helper' = "none"
    /\ UNCHANGED << cfgVars, runVars, mainVars, histVars, waitVars, term, pc, child,
                    ctr, signals >>

\* the container runtime creates and starts the run's container
CtrStart ==
    /\ format = "Docker"
    /\ child.state = "running"
    /\ SIGKILL \notin child.pend
    /\ ctr = "none"
    /\ ctr' = "running"
    /\ UNCHANGED << cfgVars, runVars, mainVars, histVars, waitVars, term, pc, child,
                    helper, signals >>

\* the transfer writes to its scratch destination
Download ==
    /\ child.state = "running"
    /\ SIGKILL \notin child.pend
    /\ Len(tmp_file.chunks) < MaxChunks
    /\ \E n \in 1..MaxChunkLen :
        tmp_file' = [tmp_file EXCEPT !.chunks = Append(@, n)]
    /\ UNCHANGED << cfgVars, uses, size, bound, cmd, inherited, origin_pass,
                    origins, mainVars, waitVars, procVars, histVars, term,
                    pc, signals >>

RunPcs == {"wait", "sleep", "kill", "grace", "blocking_wait", "reap", "docker_wait",
           "docker_kill"}
FinalPcs == {"done", "terminated", "panic"}

\* SIGINT / SIGTERM to the benchmark: signal_hook sets the flag
SetTerm ==
    /\ ~term
    /\ pc \notin FinalPcs
    /\ term' = TRUE
    /\ termAt' = [set |-> TRUE, pass |-> pass, target |-> target,
                   running |-> pc \in RunPcs]
    /\ UNCHANGED << cfgVars, runVars, mainVars, waitVars, procVars, pc, signals,
                    spawned >>

(* ------------------------------ main.rs ------------------------------- *)
\* ip.parse::<net::IpAddr>() is Ok
ParseIpAddr(ip) == ip \in IpAddrs

\* the keys the iteration over profile.uses has not yielded yet
Unvisited == DOMAIN profile_uses \ {uses[i].network : i \in DOMAIN uses}

\* mutant: a binding is pushed without being parsed
CreatePushUnchecked ==
    /\ pc = "create"
    /\ \E ip \in Unvisited :
        uses' = Append(uses, [network |-> ip, comment |-> profile_uses[ip]])
    /\ UNCHANGED << cfgVars, tmp_file, size, bound, cmd, inherited, origin_pass,
                    origins, mainVars, waitVars, procVars, histVars, term,
                    signals, pc >>

\* FormatRunnerFactory::create, one iteration of `for .. in profile.uses`
\* (a HashMap yields its entries in an unspecified order): IPFormatRunner
\* parses the identifier, DockerFormatRunner takes it as is
CreatePush ==
    /\ pc = "create"
    /\ \E ip \in Unvisited :
        IF format = "IP" /\ ~ParseIpAddr(ip)
        THEN /\ pc' = "panic"
             /\ UNCHANGED uses
        ELSE /\ uses' = Append(uses, [network |-> ip,
                                      comment |-> profile_uses[ip]])
             /\ UNCHANGED pc
    /\ UNCHANGED << cfgVars, tmp_file, size, bound, cmd, inherited, origin_pass,
                    origins, mainVars, waitVars, procVars, histVars, term,
                    signals >>

\* DockerFormatRunner::create: `docker image inspect <image>` and its
\* status; the command not running at all panics
CreateInspect ==
    /\ pc = "create"
    /\ format = "Docker"
    /\ Unvisited = {}
    /\ image.inspect = "none"
    /\ \E r \in {"found", "missing", "error"} :
        /\ image' = [inspect |-> r, pull |-> "none"]
        /\ pc' = IF r = "error" THEN "panic" ELSE pc
    /\ UNCHANGED << args, program, format, profile_uses, extra, runVars, mainVars,
                    waitVars, procVars, histVars, term, signals >>

\* mutant: the status of `docker pull` is not asserted
CreatePullUnasserted ==
    /\ pc = "create"
    /\ format = "Docker"
    /\ image.inspect = "missing"
    /\ image.pull = "none"
    /\ \E ok \in BOOLEAN :
        image' = [image EXCEPT !.pull = IF ok THEN "ok" ELSE "failed"]
    /\ UNCHANGED << args, program, format, profile_uses, extra, runVars, mainVars,
                    waitVars, procVars, histVars, term, signals, pc >>

\* DockerFormatRunner::create: `docker pull <image>` when the inspection
\* did not succeed, and the assert on its status
CreatePull ==
    /\ pc = "create"
    /\ format = "Docker"
    /\ image.inspect = "missing"
    /\ image.pull = "none"
    /\ \E ok \in BOOLEAN :
        /\ image' = [image EXCEPT !.pull = IF ok THEN "ok" ELSE "failed"]
        /\ pc' = IF ok THEN pc ELSE "panic"
    /\ UNCHANGED << args, program, format, profile_uses, extra, runVars, mainVars,
                    waitVars, procVars, histVars, term, signals >>

\* the end of create (IPFormatRunner looks for libbinder.so for git and
\* panics without it; DockerFormatRunner has its image), then main enters
\* the pass loop; with no binding every pass is empty
CreateDone ==
    /\ pc = "create"
    /\ Unvisited = {}
    /\ format = "Docker" => (image.inspect = "found" \/ image.pull = "ok")
    /\ \E ok \in BOOLEAN :
        /\ ~ok => (format = "IP" /\ program = "Git")
        /\ IF ~ok
           THEN /\ pc' = "panic"
                /\ UNCHANGED << pass, results, origins >>
           ELSE IF uses # << >>
           THEN /\ pc' = "check"
                /\ UNCHANGED << pass, results, origins >>
           ELSE /\ pc' = "aggregate"
                /\ pass' = args.pass
                /\ results' = [p \in 1..args.pass |-> << >>]
                /\ origins' = [p \in 1..args.pass |-> << >>]
    /\ UNCHANGED << cfgVars, uses, tmp_file, size, bound, cmd, inherited,
                    origin_pass, target, results_pass, calculated_results,
                    state_str, waitVars, procVars, histVars, term, signals >>

\* state_str: how a finished run is reported
StateStr(durationMs, timeoutSecs, status) ==
    IF durationMs > timeoutSecs * 1000 THEN "timeout"
    ELSE IF StatusCode(status) = 0 THEN "ok"
    ELSE IF StatusCode(status) # None THEN "failed"
    ELSE "killed"

\* mutant: the flag is not looked at before a run
CheckpointUnchecked ==
    /\ pc = "check"
    /\ pc' = "run"
    /\ UNCHANGED << cfgVars, runVars, mainVars, waitVars, procVars, histVars, term,
                    signals >>

\* the checkpoint at the head of `for target in uses`
Checkpoint ==
    /\ pc = "check"
    /\ pc' = IF term THEN "terminated" ELSE "run"
    /\ UNCHANGED << cfgVars, runVars, mainVars, waitVars, procVars, histVars, term,
                    signals >>

\* create_tmp_dir for git, create_tmp_file for the other programs
CreateTmp(p) ==
    [kind |-> IF p # "Git" THEN "file" ELSE "dir", chunks |-> << >>]

\* std::fs::Metadata::len: the length of the path itself
MetadataLen(t) == IF t.kind = "dir" THEN DirEntryLen ELSE Sum(t.chunks)

\* fs_extra::dir::get_size: the length of a file; for a directory its own
\* length and the lengths of all it holds
DirGetSize(t) ==
    IF t.kind = "dir" THEN DirEntryLen + Sum(t.chunks) ELSE Sum(t.chunks)

\* `size`
Size(p, t) == IF p = "Git" THEN MetadataLen(t) ELSE DirGetSize(t)

(* ------------------------- the command of a run ----------------------- *)
\* the strings a command is built from: args.upstream, the path of the
\* scratch destination, the canonical path of libbinder.so, profile.docker,
\* profile.image and the random container name
Upstream == "upstream"
TmpPath == "tmp"
BinderPath == "libbinder.so"
DockerPath == "docker"
ImageName == "image"
CtrName == "bestbind-ctr"

\* Program's Display, get_program_name
ProgramName(p) ==
    CASE p = "Rsync" -> "rsync"
      [] p = "Wget" -> "wget"
      [] p = "Curl" -> "curl"
      [] p = "Git" -> "git"

\* format::get_program_args; bind_ip is an Option: << >> or << ip >>
GetProgramArgs(p, ex, upstream, tmp, bind_ip) ==
    CASE p = "Rsync" ->
            << "-vP", "-rLptgoD", "--inplace" >>
            \o (IF bind_ip # << >> THEN << "--address", bind_ip[1] >>
                ELSE << >>)
            \o << upstream, tmp >> \o ex
      [] p = "Curl" ->
            << "-o", tmp >>
            \o (IF bind_ip # << >> THEN << "--interface", bind_ip[1] >>
                ELSE << >>)
            \o << upstream >> \o ex
      [] p = "Wget" ->
            << "-O", tmp >>
            \o (IF bind_ip # << >> THEN << "--bind-address", bind_ip[1] >>
                ELSE << >>)
            \o << upstream >> \o ex
      [] p = "Git" -> << "clone", "--bare", upstream, tmp >>

\* ip.rs get_child: the arguments of the Command
GetChildArgs(p, bind_ip, upstream, tmp, ex) ==
    CASE p = "Rsync" ->
            << "-vP", "-rLptgoD", "--inplace", "--address", bind_ip,
               upstream, tmp >> \o ex
      [] p = "Curl" ->
            << "-o", tmp, "--interface", bind_ip, upstream >> \o ex
      [] p = "Wget" ->
            << "-O", tmp, "--bind-address", bind_ip, upstream >> \o ex
      [] p = "Git" -> << "clone", "--bare", upstream, tmp >>

\* mutant: the two variables are set for every program
GetChildEnvEveryProgram(p, bind_ip, binder) ==
    {<< "LD_PRELOAD", binder >>, << "BIND_ADDRESS", bind_ip >>}

\* ip.rs get_child: the variables added to the environment
GetChildEnv(p, bind_ip, binder) ==
    IF p = "Git"
    THEN {<< "LD_PRELOAD", binder >>, << "BIND_ADDRESS", bind_ip >>}
    ELSE {}

\* DockerFormatRunner::run: the arguments of `docker`
DockerRunArgs(p, t, tmp, ex) ==
    << "run", "--name", CtrName, "--rm", "--network", t, "-v",
       tmp \o ":" \o tmp, ImageName, ProgramName(p) >>
    \o GetProgramArgs(p, ex, Upstream, tmp, << >>)

\* runner.run(&target.network, ..): the Command that is spawned
Launch(t) ==
    IF format = "IP"
    THEN [prog |-> ProgramName(program),
          argv |-> GetChildArgs(program, t, Upstream, TmpPath, extra),
          env |-> GetChildEnv(program, t, BinderPath)]
    ELSE [prog |-> DockerPath,
          argv |-> DockerRunArgs(program, t, TmpPath, extra),
          env |-> {}]

\* mutant: every run is bound to the first binding
RunTargetFirst(t) == uses[1].network

\* the binding handed to runner.run: &target.network
RunTarget(t) == uses[t + 1].network

\* mutant: a failed launch is reported as a failed run of that binding
RunLaunchFailureRecorded ==
    /\ pc = "run"
    /\ tmp_file' = CreateTmp(program)
    /\ size' = None
    /\ \E ok \in BOOLEAN :
        IF ok
        THEN /\ child' = Spawned
             /\ bound' = RunTarget(target)
             /\ cmd' = Launch(RunTarget(target))
             /\ helper' = "none"
             /\ ctr' = "none"
             /\ signals' = << >>
             /\ spawned' = spawned + 1
             /\ now' = 0
             /\ delay' = InitialDelayMs
             /\ pc' = "wait"
             /\ UNCHANGED << time, lastCheck, res, polls, prog_status, slept,
                             how >>
        ELSE /\ prog_status' = [status |-> ExitedWith(1), time |-> 0]
             /\ bound' = RunTarget(target)
             /\ cmd' = Launch(RunTarget(target))
             /\ pc' = "classify"
             /\ UNCHANGED << now, delay, time, lastCheck, res, polls, slept,
                             how, procVars, signals, spawned >>
    /\ state_str' = NoReport
    /\ UNCHANGED << cfgVars, uses, inherited, origin_pass, origins, pass,
                    target, results, results_pass, calculated_results, term,
                    termAt >>


\* create the scratch destination, runner.run(..), enter wait_timeout
Run ==
    /\ pc = "run"
    /\ tmp_file' = CreateTmp(program)
    /\ size' = None
    /\ \E ok \in BOOLEAN :
        IF ok
        THEN /\ child' = Spawned
             /\ bound' = RunTarget(target)
             /\ cmd' = Launch(RunTarget(target))
             /\ helper' = "none"
             /\ ctr' = "none"
             /\ signals' = << >>
             /\ spawned' = spawned + 1
             /\ now' = 0
             /\ delay' = InitialDelayMs
             /\ pc' = "wait"
             /\ UNCHANGED << time, lastCheck, res, polls, prog_status, slept,
                             how >>
        ELSE /\ pc' = "panic"
             /\ UNCHANGED << waitVars, procVars, signals, spawned, bound,
                             cmd >>
    /\ state_str' = NoReport
    /\ UNCHANGED << cfgVars, uses, inherited, origin_pass, origins, pass, target, results, results_pass,
                    calculated_results, term, termAt >>

\* mutant: a failed run is not recorded but run again
RecordRetryFailed ==
    /\ pc = "classify"
    /\ state_str' = [state |-> StateStr(prog_status.time, args.timeout,
                                        prog_status.status),
                      user |-> term]
    /\ \E bandwidth \in Samples :
        LET rp == Append(results_pass, bandwidth) IN
        IF state_str'.state \in {"failed", "killed"}
        THEN /\ pc' = "run"
             /\ UNCHANGED << pass, target, results, results_pass,
                             origin_pass, origins >>
        ELSE IF target + 1 < Len(uses)
        THEN /\ results_pass' = rp
             /\ origin_pass' = Append(origin_pass, bound)
             /\ target' = target + 1
             /\ pc' = "check"
             /\ UNCHANGED << pass, results, origins >>
        ELSE /\ results' = Append(results, rp)
             /\ results_pass' = << >>
             /\ origins' = Append(origins, Append(origin_pass, bound))
             /\ origin_pass' = << >>
             /\ target' = 0
             /\ pass' = pass + 1
             /\ pc' = IF pass + 1 < args.pass THEN "check" ELSE "aggregate"
    /\ now' = 0
    /\ delay' = InitialDelayMs
    /\ time' = None
    /\ lastCheck' = "none"
    /\ res' = None
    /\ polls' = 0
    /\ prog_status' = NoStatus
    /\ slept' = 0
    /\ how' = "none"
    /\ child' = NoChild
    /\ helper' = "none"
    /\ ctr' = "none"
    /\ signals' = << >>
    /\ size' = Size(program, tmp_file)
    /\ tmp_file' = NoTmp
    /\ bound' = ""
    /\ cmd' = NoCmd
    /\ UNCHANGED << cfgVars, uses, inherited, calculated_results, term,
                    histVars >>

\* report the run, measure the size, push the bandwidth, advance the loops
Record ==
    /\ pc = "classify"
    /\ state_str' = [state |-> StateStr(prog_status.time, args.timeout,
                                        prog_status.status),
                      user |-> term]
    /\ \E bandwidth \in Samples :
        LET rp == Append(results_pass, bandwidth) IN
        IF target + 1 < Len(uses)
        THEN /\ results_pass' = rp
             /\ origin_pass' = Append(origin_pass, bound)
             /\ target' = target + 1
             /\ pc' = "check"
             /\ UNCHANGED << pass, results, origins >>
        ELSE /\ results' = Append(results, rp)
             /\ results_pass' = << >>
             /\ origins' = Append(origins, Append(origin_pass, bound))
             /\ origin_pass' = << >>
             /\ target' = 0
             /\ pass' = pass + 1
             /\ pc' = IF pass + 1 < args.pass THEN "check" ELSE "aggregate"
    \* the handle and its locals are dropped at the end of the iteration
    /\ now' = 0
    /\ delay' = InitialDelayMs
    /\ time' = None
    /\ lastCheck' = "none"
    /\ res' = None
    /\ polls' = 0
    /\ prog_status' = NoStatus
    /\ slept' = 0
    /\ how' = "none"
    /\ child' = NoChild
    /\ helper' = "none"
    /\ ctr' = "none"
    /\ signals' = << >>
    /\ size' = Size(program, tmp_file)
    /\ tmp_file' = NoTmp
    /\ bound' = ""
    /\ cmd' = NoCmd
    /\ UNCHANGED << cfgVars, uses, inherited, calculated_results, term,
                    histVars >>

RECURSIVE FoldMin(_, _)
FoldMin(acc, s) ==
    IF s = << >> THEN acc ELSE FoldMin(Min(acc, Head(s)), Tail(s))

Max(a, b) == IF a >= b THEN a ELSE b

RECURSIVE FoldMax(_, _)
FoldMax(acc, s) ==
    IF s = << >> THEN acc ELSE FoldMax(Max(acc, Head(s)), Tail(s))

\* pass[i] for every pass of `results`
Column(rs, i) == [p \in 1..Len(rs) |-> rs[p][i]]

\* mutant: the trimming starts above three passes
ScoreTrimAboveThree(col, passes) ==
    IF passes > TrimPasses
    THEN [num |-> Sum(col) - (FoldMin(F64_MAX, col) + FoldMax(-F64_MAX, col)),
          den |-> passes - 2]
    ELSE [num |-> Sum(col), den |-> passes]

\* `res`: the score of one binding, as the fraction num / den
Score(col, passes) ==
    IF passes >= TrimPasses
    THEN [num |-> Sum(col) - (FoldMin(F64_MAX, col) + FoldMax(-F64_MAX, col)),
          den |-> passes - 2]
    ELSE [num |-> Sum(col), den |-> passes]

\* f64::partial_cmp on two fractions with positive denominators
PartialCmp(x, y) ==
    IF x.num * y.den < y.num * x.den THEN "Less"
    ELSE IF x.num * y.den > y.num * x.den THEN "Greater"
    ELSE "Equal"

\* mutant: the closure compares a with b
ByScoreAscending(a, b) == PartialCmp(a.res, b.res)

\* the closure of sort_by: |a, b| b.2.partial_cmp(&a.2)
ByScore(a, b) == PartialCmp(b.res, a.res)

\* slice::sort_by is stable: x goes after every element not greater than it
RECURSIVE InsertSorted(_, _)
InsertSorted(x, s) ==
    IF s = << >> THEN << x >>
    ELSE IF ByScore(Head(s), x) = "Greater"
         THEN << x >> \o s
         ELSE << Head(s) >> \o InsertSorted(x, Tail(s))

RECURSIVE SortBy(_)
SortBy(s) ==
    IF s = << >> THEN << >>
    ELSE InsertSorted(s[Len(s)], SortBy(SubSeq(s, 1, Len(s) - 1)))

Calculated(rs, passes) ==
    [i \in 1..Len(uses) |->
        [network |-> uses[i].network, comment |-> uses[i].comment,
         res |-> Score(Column(rs, i), passes)]]

\* the aggregation loop, the sort and the final report
Aggregate ==
    /\ pc = "aggregate"
    /\ calculated_results' = SortBy(Calculated(results, args.pass))
    /\ pc' = "done"
    /\ UNCHANGED << cfgVars, runVars, pass, target, results, results_pass, state_str,
                    waitVars, procVars, histVars, term, signals >>

(* --------------------------- specifications --------------------------- *)
Idle ==
    /\ tmp_file = NoTmp
    /\ size = None
    /\ bound = ""
    /\ cmd = NoCmd
    /\ origin_pass = << >>
    /\ pass = 0
    /\ target = 0
    /\ results_pass = << >>
    /\ calculated_results = << >>
    /\ term = FALSE
    /\ now = 0
    /\ delay = InitialDelayMs
    /\ time = None
    /\ lastCheck = "none"
    /\ res = None
    /\ polls = 0
    /\ prog_status = NoStatus
    /\ state_str = NoReport
    /\ child = NoChild
    /\ helper = "none"
    /\ ctr = "none"
    /\ signals = << >>
    /\ slept = 0
    /\ how = "none"
    /\ spawned = 0
    /\ termAt = NoTerm

\* the command lines explored: every pass count with a zero timeout, and
\* every timeout with a single pass
ArgsSet ==
    {a \in [pass : 1..MaxPass, timeout : 0..MaxTimeout] :
        a.pass = 1 \/ a.timeout = 0}

\* what get_runner leaves for the declared bindings, in a process that was
\* started without children
Constructed ==
    /\ profile_uses = [ip \in {Uses[i].network : i \in DOMAIN Uses} |->
                          (CHOOSE e \in {Uses[i] : i \in DOMAIN Uses} :
                              e.network = ip).comment]
    /\ uses = Uses
    /\ image = IF format = "Docker"
               THEN [inspect |-> "found", pull |-> "none"]
               ELSE NoImage
    /\ extra = << >>
    /\ inherited = "none"

\* the programs explored with more than one pass: one that is terminated
\* in two stages and the one whose process group is killed
MultiPassPrograms == {"Curl", "Git"}

\* the whole benchmark, from the head of the pass loop
Init ==
    /\ args \in ArgsSet
    /\ program \in Programs
    /\ args.pass = 1 \/ program \in MultiPassPrograms
    /\ format \in Formats
    /\ pc = "check"
    /\ results = << >>
    /\ origins = << >>
    /\ Constructed
    /\ Idle

HandleStep ==
    \/ WaitExited
    \/ WaitCancelled
    \/ WaitDeadline
    \/ WaitSleep
    \/ WaitWake
    \/ KillFirstSignal
    \/ GraceExited
    \/ GraceSleep
    \/ Escalate
    \/ BlockingWait
    \/ ReapAllChildren
    \/ DockerKillChild
    \/ DockerWait
    \/ DockerKillContainer

EnvStep ==
    \/ ChildExit
    \/ ChildTermExit
    \/ ChildKillExit
    \/ HelperSpawn
    \/ HelperExit
    \/ CtrStart
    \/ SetTerm

Next ==
    \/ Checkpoint
    \/ Run
    \/ Record
    \/ Aggregate
    \/ HandleStep
    \/ EnvStep

Spec == Init /\ [][Next]_vars

\* one run: runner.run(..) and the handle's wait_timeout, to its return.
\* The main thread keeps running and the kernel ends a process that has a
\* SIGKILL pending.
InitWait ==
    /\ args \in [pass : {1}, timeout : 0..MaxTimeout]
    /\ program \in Programs
    /\ format \in Formats
    /\ pc = "run"
    /\ results = << >>
    /\ origins = << >>
    /\ Constructed
    /\ Idle

NextWait ==
    \/ Run
    \/ HandleStep
    \/ EnvStep

WaitSpec ==
    /\ InitWait
    /\ [][NextWait]_vars
    /\ WF_vars(HandleStep)
    /\ WF_vars(ChildKillExit)

\* the other child of the process exits
InheritedExit ==
    /\ inherited = "running"
    /\ inherited' = "zombie"
    /\ UNCHANGED << cfgVars, uses, tmp_file, size, bound, cmd, origin_pass, origins,
                    mainVars, waitVars, procVars, histVars, pc, term, signals >>

\* one run of a process that may have a child besides the transfer (kept
\* across exec, or an orphan adopted by pid 1): waitpid(-1, ..) sees it too
InitExec ==
    /\ args \in [pass : {1}, timeout : 0..MaxTimeout]
    /\ program \in Programs
    /\ format \in Formats
    /\ pc = "run"
    /\ results = << >>
    /\ origins = << >>
    /\ profile_uses = [ip \in {Uses[i].network : i \in DOMAIN Uses} |->
                          (CHOOSE e \in {Uses[i] : i \in DOMAIN Uses} :
                              e.network = ip).comment]
    /\ uses = Uses
    /\ image = IF format = "Docker"
               THEN [inspect |-> "found", pull |-> "none"]
               ELSE NoImage
    /\ extra = << >>
    /\ inherited \in {"none", "running", "zombie"}
    /\ Idle

NextExec ==
    \/ NextWait
    \/ InheritedExit

ExecSpec ==
    /\ InitExec
    /\ [][NextExec]_vars
    /\ WF_vars(HandleStep)
    /\ WF_vars(ChildKillExit)

\* runner construction on every profile of up to MaxUses bindings, and the
\* single-pass benchmark that follows it; a timeout above 0 is explored
\* with the profiles of at most one binding
InitCreate ==
    /\ args \in [pass : {1}, timeout : 0..MaxTimeout]
    /\ program \in Programs
    /\ format \in Formats
    /\ profile_uses \in UNION {[K -> {"c"}] :
                                K \in {S \in SUBSET Identifiers :
                                            Cardinality(S) <= MaxUses}}
    /\ args.timeout = 0 \/ Cardinality(DOMAIN profile_uses) <= 1
    /\ uses = << >>
    /\ image = NoImage
    /\ extra = << >>
    /\ inherited = "none"
    /\ pc = "create"
    /\ results = << >>
    /\ origins = << >>
    /\ Idle

NextCreate ==
    \/ CreatePush
    \/ CreateInspect
    \/ CreatePull
    \/ CreateDone
    \/ Next

CreateSpec == InitCreate /\ [][NextCreate]_vars

\* the run of the first binding with a transfer that writes and exits on
\* its own, up to the measurement of what it wrote
InitSize ==
    /\ args = [pass |-> 1, timeout |-> MaxTimeout]
    /\ program \in Programs
    /\ format \in Formats
    /\ pc = "run"
    /\ results = << >>
    /\ origins = << >>
    /\ Constructed
    /\ Idle

NextSize ==
    \/ Run
    \/ Download
    \/ ChildExit
    \/ WaitExited
    \/ Record

SizeSpec == InitSize /\ [][NextSize]_vars

\* the aggregation alone, on every table of samples
InitAgg ==
    /\ args \in [pass : 1..MaxPass, timeout : {0}]
    /\ program = "Rsync"
    /\ format = "IP"
    /\ pc = "aggregate"
    /\ results \in [1..args.pass -> [1..Len(Uses) -> AggSamples]]
    /\ origins = [p \in 1..args.pass |-> [i \in 1..Len(Uses) |-> Uses[i].network]]
    /\ Constructed
    /\ Idle

NextAgg == Aggregate

AggSpec == InitAgg /\ [][NextAgg]_vars

\* every binding of the profile run once with a transfer that exits on its
\* own, for every program, format and list of extra arguments
InitArgs ==
    /\ args = [pass |-> 1, timeout |-> 0]
    /\ program \in Programs
    /\ format \in Formats
    /\ extra \in ExtraArgs
    /\ profile_uses = [ip \in {Uses[i].network : i \in DOMAIN Uses} |->
                          (CHOOSE e \in {Uses[i] : i \in DOMAIN Uses} :
                              e.network = ip).comment]
    /\ uses = Uses
    /\ image = IF format = "Docker"
               THEN [inspect |-> "found", pull |-> "none"]
               ELSE NoImage
    /\ inherited = "none"
    /\ pc = "check"
    /\ results = << >>
    /\ origins = << >>
    /\ Idle

NextArgs ==
    \/ Checkpoint
    \/ Run
    \/ ChildExit
    \/ WaitExited
    \/ Record

ArgsSpec == InitArgs /\ [][NextArgs]_vars

(* ------------------------------ claims -------------------------------- *)
\* C1: every signal sent to the child's pid or process group (SIGTERM,
\* killpg SIGKILL, the escalation SIGKILL, Child::kill of the container
\* client) is sent when the handle's latest try_wait returned "still
\* running", and never after the handle has reaped the child.
C1SignalSoundness ==
    \A i \in DOMAIN signals :
        signals[i].to # "container" =>
            /\ signals[i].last = "running"
            /\ ~signals[i].reaped

\* an escalation SIGKILL has followed a SIGTERM and 50 polls
C1Witness ==
    /\ format = "IP"
    /\ Len(signals) = 2
    /\ signals[1].sig = SIGTERM
    /\ signals[2].sig = SIGKILL
    /\ signals[2].to = "pid"

\* C2: a child that exits on its own at t < timeout, with the flag unset, is
\* returned with its own exit status and t <= elapsed <= t + the latest
\* backoff sleep (at most 100 ms); nothing was signalled or killed.
C2NaturalExit ==
    (/\ pc = "classify"
     /\ child.cause = "own"
     /\ child.exitAt < Deadline
     /\ ~term)
    => /\ how = "natural"
       /\ prog_status.status = child.status
       /\ prog_status.time >= child.exitAt
       /\ prog_status.time <= child.exitAt + slept
       /\ slept <= MaxDelayMs
       /\ signals = << >>

\* an exit right after a poll, found a full 100 ms sleep later
C2Witness ==
    /\ pc = "classify"
    /\ child.cause = "own"
    /\ child.exitAt < Deadline
    /\ ~term
    /\ how = "natural"
    /\ prog_status.time = child.exitAt + MaxDelayMs

\* C3 (local-bind handle): wait_timeout always returns; when the child did
\* not exit on its own the return is a forced termination, the child has
\* exited and been reaped, and the clock is at most timeout + 50 x 100 ms.
C3AlwaysReturns ==
    /\ [](( /\ pc = "classify"
            /\ format = "IP"
            /\ child.cause # "own")
          => /\ how = "forced"
             /\ child.state = "reaped"
             /\ prog_status.status = child.status
             /\ now <= Deadline + GracePolls * GraceSleepMs)
    /\ ((format = "IP" /\ pc = "wait") ~> (pc = "classify"))

\* a child that ignored SIGTERM for the whole grace period, then SIGKILLed
C3Witness ==
    /\ pc = "classify"
    /\ format = "IP"
    /\ program # "Git"
    /\ args.timeout = MaxTimeout
    /\ child.cause = "sigkill"
    /\ how = "forced"
    /\ now = Deadline + GracePolls * GraceSleepMs

\* C4: terminating git starts with SIGKILL to the process group, sent at the
\* instant termination begins, SIGTERM is never sent, and when the routine
\* returns neither the child nor a helper of its group can run any more.
C4GroupKill ==
    (format = "IP" /\ program = "Git")
    => /\ signals # << >> =>
            /\ signals[1].sig = SIGKILL
            /\ signals[1].to = "pgrp"
            /\ signals[1].at = time
       /\ \A i \in DOMAIN signals : signals[i].sig # SIGTERM
       /\ (pc = "classify" /\ how = "forced") =>
            /\ Dead(child)
            /\ helper # "running"

\* a git run was terminated while a helper was running
C4Witness ==
    /\ format = "IP"
    /\ program = "Git"
    /\ pc = "classify"
    /\ how = "forced"
    /\ helper = "killed"

\* C7: a run whose elapsed time is >= the timeout is reported as an expected
\* timeout; a shorter run is reported by its exit status (0: ok, other code:
\* failed, signal: killed).
C7Classification ==
    pc = "classify" =>
        LET s == StateStr(prog_status.time, args.timeout, prog_status.status)
            code == StatusCode(prog_status.status)
        IN  IF prog_status.time >= Deadline
            THEN s = "timeout"
            ELSE s = (IF code = 0 THEN "ok"
                      ELSE IF code # None THEN "failed"
                      ELSE "killed")

\* samples recorded so far, and runs started so far
SampleCount == Len(results) * Len(uses) + Len(results_pass)
Position == pass * Len(uses) + target

\* C5: when the checkpoint before a run finds the flag set, the benchmark
\* stops there: nothing more is spawned or recorded and nothing is
\* aggregated, then or later.
C5Checkpoint ==
    /\ [][(pc = "check" /\ term /\ pc' # pc)
          => /\ pc' = "terminated"
             /\ UNCHANGED << spawned, results, results_pass,
                             calculated_results >>]_vars
    /\ [][pc = "terminated"
          => UNCHANGED << pc, spawned, results, results_pass,
                          calculated_results >>]_vars
    /\ [](pc = "terminated"
          => /\ calculated_results = << >>
             /\ child.state = "none"
             /\ spawned = SampleCount)

\* the flag was set after pass 1 of 3 and found before pass 2 started
C5Witness ==
    /\ pc = "terminated"
    /\ args.pass = 3
    /\ pass = 1
    /\ target = 0
    /\ Len(results) = 1
    /\ termAt.set
    /\ termAt.pass = 1
    /\ ~termAt.running

\* C6: no ranking is produced from a pass during which the flag became set
\* while a transfer was running.
C6CancelledPassDiscarded ==
    pc = "done" => ~(termAt.set /\ termAt.running)

\* C8: every (pass, binding) reached has exactly one process spawned for it,
\* and whatever the run's exit status its sample is recorded and the
\* orchestrator moves on to the next binding.
C8FailuresRecorded ==
    /\ [](spawned = SampleCount + (IF child.state # "none" THEN 1 ELSE 0))
    /\ [](pc \in {"check", "run"} => spawned = Position)
    /\ [][(pc = "classify" /\ pc' # pc)
          => /\ SampleCount' = SampleCount + 1
             /\ Position' = Position + 1
             /\ pc' \in {"check", "aggregate"}]_vars

\* a run that failed with a non-zero exit code was recorded and the run of
\* the next binding is about to start
C8Witness ==
    /\ pc = "run"
    /\ target = 1
    /\ Len(results_pass) = 1
    /\ state_str.state = "failed"

Range(s) == {s[i] : i \in DOMAIN s}
MinOf(s) == CHOOSE x \in Range(s) : \A y \in Range(s) : x <= y
MaxOf(s) == CHOOSE x \in Range(s) : \A y \in Range(s) : x >= y

RECURSIVE RemoveOne(_, _)
RemoveOne(s, v) ==
    IF s = << >> THEN << >>
    ELSE IF Head(s) = v THEN Tail(s)
    ELSE << Head(s) >> \o RemoveOne(Tail(s), v)

\* the samples left after dropping one minimum and one maximum
Trimmed(s) == RemoveOne(RemoveOne(s, MinOf(s)), MaxOf(s))

\* the fraction is the mean of the samples
MeanIs(score, s) ==
    /\ score.den > 0
    /\ Len(s) > 0
    /\ score.num * Len(s) = Sum(s) * score.den

OwnScore(i, score) ==
    IF args.pass < 3
    THEN MeanIs(score, Column(results, i))
    ELSE /\ Len(Trimmed(Column(results, i))) = args.pass - 2
         /\ MeanIs(score, Trimmed(Column(results, i)))

EntryOf(i) ==
    CHOOSE e \in Range(calculated_results) : e.network = Uses[i].network

\* C9: each binding's score is the mean of its samples when there are fewer
\* than 3 passes, else the mean after dropping exactly one minimum and one
\* maximum; [10,20,30,40,50] gives 30 and [10,20] gives 15.
C9Aggregation ==
    /\ MeanIs(Score(<< 10, 20, 30, 40, 50 >>, 5), << 30 >>)
    /\ MeanIs(Score(<< 10, 20 >>, 2), << 15 >>)
    /\ pc = "done" => \A i \in 1..Len(Uses) : OwnScore(i, EntryOf(i).res)

\* three passes with a tie for the minimum
C9Witness ==
    /\ pc = "done"
    /\ args.pass = 3
    /\ Column(results, 1) = << 10, 30, 10 >>
    /\ EntryOf(1).res = [num |-> 10, den |-> 1]

\* C10: the final list is in descending order of score and holds every
\* binding exactly once, with its own comment and score; a score of 45
\* precedes a score of 30.
C10Ranking ==
    /\ SortBy(<< [network |-> "a", comment |-> "", res |-> [num |-> 30, den |-> 1]],
                 [network |-> "b", comment |-> "", res |-> [num |-> 45, den |-> 1]] >>)[1].network = "b"
    /\ pc = "done" =>
        /\ Len(calculated_results) = Len(Uses)
        /\ \A i, j \in DOMAIN calculated_results :
            i < j => PartialCmp(calculated_results[i].res,
                                calculated_results[j].res) # "Less"
        /\ \A i \in 1..Len(Uses) :
            /\ Cardinality({j \in DOMAIN calculated_results :
                    calculated_results[j].network = Uses[i].network}) = 1
            /\ EntryOf(i).comment = Uses[i].comment
            /\ OwnScore(i, EntryOf(i).res)

\* the second binding scored higher and is listed first
C10Witness ==
    /\ pc = "done"
    /\ calculated_results[1].network = Uses[2].network
    /\ PartialCmp(calculated_results[1].res, calculated_results[2].res) = "Greater"

\* some configured identifier is not an IP address
Malformed == \E ip \in DOMAIN profile_uses : ~ParseIpAddr(ip)

\* C11: with a malformed binding identifier anywhere in a local-bind
\* profile, construction never completes: the benchmark never gets past
\* it, no process is spawned and no sample is recorded; the only way out of
\* construction is the abort.
C11FailFast ==
    /\ []((format = "IP" /\ Malformed)
          => /\ pc \in {"create", "panic"}
             /\ spawned = 0
             /\ child.state = "none"
             /\ results = << >>
             /\ results_pass = << >>
             /\ calculated_results = << >>)
    /\ [][(format = "IP" /\ Malformed /\ pc = "create" /\ pc' # pc)
          => pc' = "panic"]_vars

\* the malformed identifier is the last of three: two were accepted first
C11Witness ==
    /\ format = "IP"
    /\ pc = "panic"
    /\ Cardinality(DOMAIN profile_uses) = 3
    /\ Len(uses) = 2
    /\ \E ip \in Unvisited : ~ParseIpAddr(ip)
    /\ spawned = 0

\* C12: the binding list holds each configured binding once; every
\* completed pass holds one sample per binding, and sample i of every pass,
\* completed or under way, was measured on binding i of the list as it is
\* now; the aggregator scores binding i from column i alone.
C12SampleAlignment ==
    /\ Len(uses) = Cardinality(DOMAIN profile_uses)
    /\ {uses[i].network : i \in DOMAIN uses} = DOMAIN profile_uses
    /\ Len(origins) = Len(results)
    /\ Len(origin_pass) = Len(results_pass)
    /\ \A p \in DOMAIN results :
        /\ Len(results[p]) = Len(uses)
        /\ Len(origins[p]) = Len(uses)
        /\ \A i \in DOMAIN uses : origins[p][i] = uses[i].network
    /\ \A i \in DOMAIN origin_pass : origin_pass[i] = uses[i].network
    /\ pc = "done"
        => \A i \in DOMAIN uses :
            \E j \in DOMAIN calculated_results :
                /\ calculated_results[j].network = uses[i].network
                /\ calculated_results[j].res
                     = Score(Column(results, i), args.pass)

\* three passes were completed, and the two bindings measured differently
C12Witness ==
    /\ pc = "done"
    /\ Len(results) = 3
    /\ origins[3] = << uses[1].network, uses[2].network >>
    /\ results[3][1] # results[3][2]

\* C13: a poll tick of either handle looks at the exit status first: an
\* exited child is returned with its own status and nothing is signalled,
\* whatever the flag and the clock; else a set flag starts termination at
\* once; else a reached deadline does; else the loop sleeps.
C13TickOrder ==
    [][(pc = "wait" /\ pc' # pc)
       => IF child.state \in {"zombie", "reaped"}
          THEN /\ pc' = "classify"
               /\ how' = "natural"
               /\ prog_status' = [status |-> child.status, time |-> now]
               /\ signals' = signals
               /\ signals = << >>
          ELSE IF term
          THEN /\ pc' = "kill"
               /\ time' = now
          ELSE IF now >= Deadline
          THEN /\ pc' = "kill"
               /\ time' = now
          ELSE pc' = "sleep"]_vars

\* the container client had exited on its own when the tick found the flag
\* set and the deadline passed
C13Witness ==
    /\ format = "Docker"
    /\ pc = "classify"
    /\ how = "natural"
    /\ term
    /\ args.timeout = 1
    /\ now >= Deadline
    /\ signals = << >>

C15ExitRace ==
    /\ (pc = "panic" => child.cause # "own")
    /\ \A i \in DOMAIN signals :
            signals[i].to # "container" => ~signals[i].reaped

\* C16: the container handle returns a forced termination only after the
\* client was killed and reaped and then `docker kill` of the container
\* succeeded; when `docker kill` fails nothing is returned and the
\* benchmark is over: no run, no sample and no aggregation follows.
C16Confirmation ==
    /\ []((format = "Docker" /\ pc = "classify" /\ how = "forced")
          => /\ child.state = "reaped"
             /\ ctr = "gone"
             /\ Len(signals) = 2
             /\ signals[1].to = "pid"
             /\ signals[1].sig = SIGKILL
             /\ ~signals[1].reaped
             /\ signals[2].to = "container"
             /\ signals[2].reaped
             /\ prog_status.status = FromRaw(128 + SIGKILL))
    /\ [][(pc = "docker_kill" /\ pc' # pc)
          => \/ /\ ctr = "running"
                /\ ctr' = "gone"
                /\ pc' = "classify"
             \/ /\ pc' = "panic"
                /\ prog_status' = NoStatus]_vars
    /\ [][pc = "panic"
          => UNCHANGED << pc, spawned, results, results_pass,
                          calculated_results, prog_status >>]_vars

\* `docker kill` failed in the run of the second binding
C16Witness ==
    /\ format = "Docker"
    /\ pc = "panic"
    /\ target = 1
    /\ Len(results_pass) = 1
    /\ Len(signals) = 2
    /\ signals[2].to = "container"
    /\ calculated_results = << >>

\* C17: whenever the main thread is outside a run (before a run starts, at
\* a checkpoint, aggregating, finished) no process and no container of the
\* benchmark exists, and when wait_timeout has returned the process of the
\* run has exited and been reaped and its container no longer runs: a run
\* starts only after the previous one is over.
C17Sequential ==
    /\ pc \in {"create", "check", "run", "aggregate", "done", "terminated"}
        => /\ child.state = "none"
           /\ ctr = "none"
    /\ pc = "classify"
        => /\ child.state = "reaped"
           /\ ctr # "running"
    /\ spawned <= SampleCount + 1
    /\ child.state \in {"running", "zombie"} => pc \in RunPcs \cup {"panic"}
    /\ ctr = "running" => pc \in RunPcs \cup {"panic"}

\* the second run is about to start after the first container was killed
C17Witness ==
    /\ format = "Docker"
    /\ pc = "run"
    /\ target = 1
    /\ state_str.state = "killed"
    /\ spawned = 1
    /\ child.state = "none"

\* C18: the scratch destination of a run is a fresh directory for git and
\* a fresh file for the other programs, and the size measured after the
\* run is the recursive size of the directory for git and the length of
\* the file for the others.
C18ScratchAndSize ==
    /\ [][(pc = "run" /\ pc' # pc)
          => /\ tmp_file'.kind = (IF program = "Git" THEN "dir" ELSE "file")
             /\ tmp_file'.chunks = << >>]_vars
    /\ [][(pc = "classify" /\ pc' # pc)
          => size' = (IF program = "Git"
                      THEN DirEntryLen + Sum(tmp_file.chunks)
                      ELSE Sum(tmp_file.chunks))]_vars

\* C19: after a SIGKILL to the child or to its process group the handle
\* goes straight to a blocking wait, not to the poll loop, and on every
\* forced return the child has been reaped.
C19BlockingAfterKill ==
    /\ [][(/\ Len(signals') = Len(signals) + 1
           /\ signals'[Len(signals')].sig = SIGKILL
           /\ signals'[Len(signals')].to \in {"pid", "pgrp"})
          => pc' \in {"blocking_wait", "docker_wait"}]_vars
    /\ []((pc = "classify" /\ how = "forced") => child.state = "reaped")

\* C19, amended: a SIGKILL to the child alone (the escalation, or the kill
\* of the container client) is followed at once by a blocking wait; the
\* SIGKILL to git's process group is followed by the poll loop, which
\* finds the exit or escalates; on every forced return the child has been
\* reaped.
C19KillThenWait ==
    /\ [][(/\ Len(signals') = Len(signals) + 1
           /\ signals'[Len(signals')].sig = SIGKILL
           /\ signals'[Len(signals')].to = "pid")
          => pc' \in {"blocking_wait", "docker_wait"}]_vars
    /\ [][(/\ Len(signals') = Len(signals) + 1
           /\ signals'[Len(signals')].to = "pgrp")
          => /\ pc' = "grace"
             /\ polls' = 0]_vars
    /\ []((pc = "classify" /\ how = "forced") => child.state = "reaped")

\* git's exit after the group SIGKILL was found by the second poll
C19Witness ==
    /\ format = "IP"
    /\ program = "Git"
    /\ pc = "classify"
    /\ how = "forced"
    /\ Len(signals) = 1
    /\ polls = 1
    /\ child.state = "reaped"

\* C20: after every forced termination, in either format, no exited child
\* of the process is left unreaped, and the reap never waits: each
\* iteration of the reap loop either reaps an exited child or ends the
\* loop, also while a child that has not exited exists.
C20ReapNeverBlocks ==
    /\ (pc = "reap") => WaitpidAny(child, inherited) # 0
    /\ (pc = "classify" /\ how = "forced")
          => (child.state # "zombie" /\ inherited # "zombie")

\* the claimed schedule: d_1 = 1 ms, d_(n+1) = min(2 * d_n, 100 ms), and the
\* clock after n sleeps of min(d_n, time remaining to the deadline)
RECURSIVE BackoffDelay(_)
BackoffDelay(n) ==
    IF n = 1 THEN 1 ELSE Min(2 * BackoffDelay(n - 1), 100)

RECURSIVE ClockAfter(_)
ClockAfter(n) ==
    IF n = 0 THEN 0
    ELSE LET before == ClockAfter(n - 1)
         IN  before + Min(BackoffDelay(n), Deadline - before)

\* C21: in the poll loop of either handle the n-th sleep lasts
\* min(d_n, time remaining to the deadline) with d_1 = 1 ms and
\* d_(n+1) = min(2 * d_n, 100 ms); no sleep exceeds 100 ms, the loop never
\* sleeps at or past the deadline, and the termination of a child still
\* running with the flag unset begins on the tick at the deadline.
C21Backoff ==
    /\ []((pc \in {"wait", "sleep"})
          => /\ \E n \in 0..(8 + 10 * MaxTimeout) :
                  /\ now = ClockAfter(n)
                  /\ delay = BackoffDelay(n + 1)
                  /\ n > 0 => slept = ClockAfter(n) - ClockAfter(n - 1)
             /\ now <= Deadline
             /\ pc = "sleep" => now < Deadline)
    /\ [][(pc = "sleep" /\ pc' = "wait")
          => /\ slept' = now' - now
             /\ slept' >= 1
             /\ slept' <= 100
             /\ now' <= Deadline]_vars
    /\ [][(pc = "wait" /\ pc' = "kill" /\ ~term)
          => /\ now = Deadline
             /\ time' = Deadline]_vars

\* the last sleep before the deadline, cut below the 100 ms ceiling
C21Witness ==
    /\ pc = "kill"
    /\ ~term
    /\ args.timeout = MaxTimeout
    /\ delay = 100
    /\ slept < 100
    /\ time = Deadline

\* C22: a launch that fails (runner.run spawns nothing) ends the benchmark
\* there, for every pass and binding: the step records no sample, and from
\* then on nothing is spawned, nothing is recorded and nothing is
\* aggregated.
C22LaunchFatal ==
    /\ [][(pc = "run" /\ pc' # pc /\ spawned' = spawned)
          => /\ pc' = "panic"
             /\ child' = NoChild
             /\ UNCHANGED << results, results_pass, pass, target,
                             calculated_results >>]_vars
    /\ [][pc = "panic"
          => UNCHANGED << pc, spawned, child, results, results_pass,
                          calculated_results >>]_vars
    /\ [](pc = "panic" => calculated_results = << >>)
    /\ [](SampleCount <= spawned)

\* the launch for the second binding of the second pass failed
C22Witness ==
    /\ pc = "panic"
    /\ child = NoChild
    /\ pass = 1
    /\ target = 1
    /\ Len(results) = 1
    /\ Len(results_pass) = 1
    /\ spawned = Len(uses) + 1

\* C23: the image is inspected at construction; a pull is attempted exactly
\* when the inspection ran and did not succeed; a failed pull aborts the
\* construction; no process of a run is spawned before the image was found
\* or pulled; a found image is never pulled.
C23ImageSetup ==
    /\ [][image'.pull # image.pull
          => /\ pc = "create"
             /\ image.inspect = "missing"
             /\ image.pull = "none"]_vars
    /\ []((format = "Docker" /\ pc \notin {"create", "panic"})
          => \/ image = [inspect |-> "found", pull |-> "none"]
             \/ image = [inspect |-> "missing", pull |-> "ok"])
    /\ [](image.inspect = "found" => image.pull = "none")
    /\ []((pc = "panic" /\ image.inspect = "missing")
          => image.pull \in {"ok", "failed"})
    /\ [](image.pull = "failed" => pc = "panic")
    /\ []((format = "Docker" /\ image.inspect # "found" /\ image.pull # "ok")
          => (spawned = 0 /\ child = NoChild /\ ctr = "none"))
    /\ [](format = "IP" => image = NoImage)

\* the image was missing, the pull succeeded and the first run has started
C23Witness ==
    /\ format = "Docker"
    /\ image = [inspect |-> "missing", pull |-> "ok"]
    /\ pc = "wait"
    /\ spawned = 1

\* the bind flags of rsync, curl and wget
BindFlags == {"--address", "--interface", "--bind-address"}
BindFlag(p) ==
    CASE p = "Rsync" -> "--address"
      [] p = "Curl" -> "--interface"
      [] p = "Wget" -> "--bind-address"
      [] p = "Git" -> ""
EnvNames(env) == {e[1] : e \in env}

\* C24: the command of a run.  Local-bind git: the binding address is in no
\* argument and is passed by LD_PRELOAD and BIND_ADDRESS; the two variables
\* are set for no other program and never for a container; local-bind
\* rsync, curl and wget: the address follows the program's own bind flag and
\* no other bind flag is emitted; container: no bind flag is emitted and the
\* binding is the argument of --network only.
C24BindingInjection ==
    /\ child.state # "none" => cmd # NoCmd
    /\ cmd # NoCmd =>
        LET argv == cmd.argv
            flagged == {i \in DOMAIN argv : argv[i] \in BindFlags}
            addressed == {i \in DOMAIN argv : argv[i] = bound}
        IN  /\ bound \in {uses[i].network : i \in DOMAIN uses}
            /\ (format = "IP" /\ program = "Git")
                => /\ addressed = {}
                   /\ flagged = {}
                   /\ cmd.env = {<< "LD_PRELOAD", BinderPath >>,
                                 << "BIND_ADDRESS", bound >>}
            /\ (format = "Docker" \/ program # "Git")
                => EnvNames(cmd.env) \cap {"LD_PRELOAD", "BIND_ADDRESS"} = {}
            /\ (format = "IP" /\ program # "Git")
                => /\ Cardinality(flagged) = 1
                   /\ \A i \in flagged :
                        /\ argv[i] = BindFlag(program)
                        /\ addressed = {i + 1}
            /\ format = "Docker"
                => /\ flagged = {}
                   /\ \A i \in addressed : argv[i - 1] = "--network"
                   /\ Cardinality(addressed) = 1

\* git cloning through the second binding, as a local-bind run
C24Witness ==
    /\ format = "IP"
    /\ program = "Git"
    /\ child.state = "running"
    /\ target = 1
    /\ << "BIND_ADDRESS", uses[2].network >> \in cmd.env
    /\ cmd.argv = << "clone", "--bare", Upstream, TmpPath >>

\* C25: the elapsed time of a forced return is the clock at the tick that
\* began the termination, taken before the first signal and unchanged by
\* the grace polls and the kill and wait; the size is measured only after
\* wait_timeout has returned; a run killed at the deadline with the flag
\* unset has timeout <= elapsed < timeout + one poll interval.
C25ElapsedAtBegin ==
    /\ []((pc = "classify" /\ how = "forced")
          => /\ signals # << >>
             /\ prog_status.time = signals[1].at
             /\ prog_status.time = time
             /\ prog_status.time <= now
             /\ child.exitAt # None => prog_status.time <= child.exitAt)
    /\ [][(pc = "wait" /\ pc' = "kill")
          => /\ time' = now
             /\ signals' = << >>]_vars
    /\ [][(pc \in RunPcs \ {"wait", "sleep"}) => time' = time]_vars
    /\ [](pc \in RunPcs => size = None)
    /\ [][size' # size
          => \/ pc = "run"
             \/ pc = "classify" /\ child.state = "reaped"]_vars
    /\ []((pc = "classify" /\ how = "forced" /\ ~term)
          => /\ prog_status.time >= Deadline
             /\ prog_status.time < Deadline + MaxDelayMs)

\* a timed-out run returned after the whole grace period and the SIGKILL,
\* with the elapsed time of the tick at the deadline
C25Witness ==
    /\ pc = "classify"
    /\ how = "forced"
    /\ ~term
    /\ args.timeout = MaxTimeout
    /\ Len(signals) = 2
    /\ prog_status.time = Deadline
    /\ now = Deadline + GracePolls * GraceSleepMs

\* what a poll tick can observe of the child: still running, or a status
TickStatuses ==
    {None, ExitedWith(0), ExitedWith(1), SignaledWith(SIGTERM),
     SignaledWith(SIGKILL)}

\* C26: at every clock value and delay either wait loop reaches, and for
\* every status and flag a tick can observe there, the loop of the
\* local-bind handle and the shared loop decide the tick alike (natural
\* exit, cancellation, deadline or sleep), would sleep for the same time
\* and continue with the same delay; both report the clock of the deciding
\* tick as the elapsed time.
C26LoopsEquivalent ==
    /\ (pc \in {"wait", "sleep"})
        => /\ \A st \in TickStatuses, fl \in BOOLEAN :
                IPPollTick(st, fl, now, Deadline)
                    = SharedPollTick(st, fl, now, Deadline)
           /\ now < Deadline =>
                IPSleepFor(delay, now, Deadline)
                    = SharedSleepFor(delay, now, Deadline)
           /\ IPNextDelay(delay) = SharedNextDelay(delay)
    /\ (pc = "classify" /\ how = "natural")
        => (prog_status.time = now /\ signals = << >>)
    /\ (pc \in {"kill", "grace", "blocking_wait", "docker_wait",
                 "docker_kill"})
        => /\ time <= now
           /\ signals # << >> => time = signals[1].at
           /\ format = "Docker" =>
                \A i \in DOMAIN signals : signals[i].to # "pgrp"

\* the shared loop woke at the deadline from a sleep cut to the remaining
\* time and handed the container client to its termination routine
C26Witness ==
    /\ format = "Docker"
    /\ pc = "docker_wait"
    /\ args.timeout = MaxTimeout
    /\ time = Deadline
    /\ slept < MaxDelayMs
    /\ delay = MaxDelayMs

====
